---- MODULE Spec2Model ----
(***************************************************************************)
(* A model of sile/wfq (src/lib.rs): WeightedFairQueue, a weighted fair    *)
(* queue with a bounded primary heap (`items`) and an overflow heap.       *)
(*                                                                         *)
(* The two BinaryHeaps are modelled as sets of HeapItem records (sequence  *)
(* numbers make the records distinct).  BinaryHeap::pop returns a greatest *)
(* element of the Ord implementation; which one it returns among elements  *)
(* that compare Equal is not specified, so that choice is nondeterministic.*)
(*                                                                         *)
(* A call that panics leaves the structure in the state reached at the     *)
(* panic; `panic` records it and no further call is made.  The usize byte  *)
(* counters are subtracted with `-=`: with overflow checks (debug profile) *)
(* an underflow panics, without them (release profile) it wraps.           *)
(***************************************************************************)
EXTENDS Integers, Sequences, FiniteSets, TLC

VARIABLES
    items,                  \* self.items: the primary heap
    overflow,               \* self.overflow: the overflow heap
    flows,                  \* self.flows: flow key -> FlowState
    queue_size,             \* self.queue_size: global byte counters
    max_normal_queue_size,  \* self.max_normal_queue_size
    virtual_time,           \* self.virtual_time
    seqno,                  \* self.seqno
    overflow_checks,        \* build profile: are arithmetic overflow checks on?
    panic,                  \* "none", or the kind of panic that ended the run
    result,                 \* the last call: its name, the HeapItem it built (enqueue)
                            \* and the item it returned (dequeue), each as an Option
    promoted,               \* the items promoted by the last call, in promotion order
    served                  \* history: flow key -> number of items dequeue returned

vars == <<items, overflow, flows, queue_size, max_normal_queue_size, virtual_time,
          seqno, overflow_checks, panic, result, promoted, served>>

queue == <<items, overflow, flows, queue_size, virtual_time, seqno>>

(***************************************************************************)
(* Bounds and input domains.                                               *)
(***************************************************************************)
MaxEnqueues == 4

Keys == {"A", "B"}

\* Flow keys are opaque to the queue (K: Clone + Eq + Hash): the runs that start
\* with one key are the runs that start with the other, renamed.
FirstKey == "A"

Weights == {1, 3}

Sizes == {30, 60}

MaxSizes == {50, 100}

(***************************************************************************)
(* usize arithmetic.  The model keeps a 16-bit width for usize: every true *)
(* byte count of the model is far below it, so a counter at or above       *)
(* UsizeModulus / 2 is a wrapped one.                                      *)
(***************************************************************************)
UsizeModulus == 65536

AddOverflows(a, b) == a + b >= UsizeModulus

WrappingAdd(a, b) == (a + b) % UsizeModulus

SubOverflows(a, b) == b > a

WrappingSub(a, b) == (a - b + UsizeModulus) % UsizeModulus

(***************************************************************************)
(* Records.                                                                *)
(***************************************************************************)
NewQueueSize == [normal |-> 0, overflow |-> 0]

FlowState(vt) == [last_virtual_finish_time |-> vt, queue_size |-> NewQueueSize]

HeapItem(k, w, s, n, vft) ==
    [flow_key |-> k, weight |-> w, size |-> s, seqno |-> n, virtual_finish_time |-> vft]

IpPrecedenceWeight ==
    [P0 |-> 32768, P1 |-> 16384, P2 |-> 10920, P3 |-> 8192,
     P4 |-> 6552, P5 |-> 5456, P6 |-> 4680, P7 |-> 4096]

(***************************************************************************)
(* Orderings of the two heaps.                                             *)
(***************************************************************************)
\* The comparison without its `.reverse()`.
HeapItemGeUnreversed(a, b) == a.virtual_finish_time >= b.virtual_finish_time

\* impl Ord for HeapItem: a is Greater than or Equal to b (reversed finish time).
HeapItemGe(a, b) == a.virtual_finish_time <= b.virtual_finish_time

\* The comparison without the `.reverse()` of its sequence-number tie-break.
OverflowHeapItemGeLatestFirst(a, b) ==
    \/ a.weight > b.weight
    \/ a.weight = b.weight /\ a.seqno >= b.seqno

\* impl Ord for OverflowHeapItem: a is Greater than or Equal to b.
OverflowHeapItemGe(a, b) ==
    \/ a.weight > b.weight
    \/ a.weight = b.weight /\ a.seqno <= b.seqno

\* A pop that falls back on the overflow heap when the primary heap is empty.
ItemsPopOrOverflow(heap) ==
    IF heap = {}
    THEN IF overflow = {} THEN {<<>>} ELSE {<<a>> : a \in overflow}
    ELSE {<<a>> : a \in {x \in heap : \A b \in heap : HeapItemGe(x, b)}}

\* self.items.pop(): the Options BinaryHeap::pop may return, None being <<>>.
ItemsPop(heap) ==
    IF heap = {}
    THEN {<<>>}
    ELSE {<<a>> : a \in {x \in heap : \A b \in heap : HeapItemGe(x, b)}}

\* self.overflow.pop(): the Option BinaryHeap::pop returns (the order is total).
OverflowPop(heap) ==
    IF heap = {}
    THEN <<>>
    ELSE <<CHOOSE a \in heap : \A b \in heap : OverflowHeapItemGe(a, b)>>

\* A test that lets any item into an empty primary queue.
FitsWhenEmpty(normal, size, max) == normal = 0 \/ ~(normal + size > max)

\* The test without the size of the arriving item.
FitsWithoutItem(normal, size, max) == ~(normal > max)

\* The admission test of enqueue and of the promotion sweep.
Fits(normal, size, max) == ~(normal + size > max)

\* The price without the weight.
NextFinishTimeUnweighted(last, size, weight) == last + size

\* flow.last_virtual_finish_time += item_size as u64 * item.weight.get()
\* (u64; the sizes, weights and call counts of the model keep it far below 2^64)
NextFinishTime(last, size, weight) == last + size * weight

(***************************************************************************)
(* new                                                                     *)
(***************************************************************************)
New(max) ==
    /\ items = {}
    /\ overflow = {}
    /\ flows = [k \in {} |-> FlowState(0)]
    /\ queue_size = NewQueueSize
    /\ max_normal_queue_size = max
    /\ virtual_time = 0
    /\ seqno = 0

Init ==
    /\ \E max \in MaxSizes : New(max)
    /\ overflow_checks \in BOOLEAN
    /\ panic = "none"
    /\ result = [op |-> "new", arg |-> <<>>, ret |-> <<>>]
    /\ promoted = <<>>
    /\ served = [k \in Keys |-> 0]

(***************************************************************************)
(* The calls work on a record of the fields they change.                   *)
(***************************************************************************)
Self ==
    [items |-> items, overflow |-> overflow, flows |-> flows,
     queue_size |-> queue_size, virtual_time |-> virtual_time, seqno |-> seqno,
     panic |-> "none", promoted |-> <<>>]

Panic(st, kind) == [st EXCEPT !.panic = kind]

Store(st) ==
    /\ items' = st.items
    /\ overflow' = st.overflow
    /\ flows' = st.flows
    /\ queue_size' = st.queue_size
    /\ virtual_time' = st.virtual_time
    /\ seqno' = st.seqno
    /\ panic' = st.panic
    /\ promoted' = st.promoted

\* self.flows.insert(key, flow) / self.flows.remove(key)
FlowsInsert(fl, k, flow) == [x \in DOMAIN fl \cup {k} |-> IF x = k THEN flow ELSE fl[x]]

FlowsRemove(fl, k) == [x \in DOMAIN fl \ {k} |-> fl[x]]

(***************************************************************************)
(* enqueue                                                                 *)
(***************************************************************************)
\* A new flow that starts at finish time 0 instead of the current virtual time.
EnsureFlowFromZero(st, k) ==
    IF k \in DOMAIN st.flows
    THEN st
    ELSE [st EXCEPT !.flows = FlowsInsert(@, k, FlowState(0))]

\* if !self.flows.contains_key(key) { self.flows.insert(key, FlowState { .. }) }
EnsureFlow(st, k) ==
    IF k \in DOMAIN st.flows
    THEN st
    ELSE [st EXCEPT !.flows = FlowsInsert(@, k, FlowState(st.virtual_time))]

\* flow.last_virtual_finish_time += size * weight; the HeapItem; self.seqno += 1
Price(st, k, w, s) ==
    [st EXCEPT !.flows[k].last_virtual_finish_time = NextFinishTime(@, s, w),
               !.seqno = @ + 1]

\* The HeapItem enqueue builds for (k, w, s) in the state st it was called in.
Priced(st, k, w, s) ==
    HeapItem(k, w, s, st.seqno,
             Price(EnsureFlow(st, k), k, w, s).flows[k].last_virtual_finish_time)

\* The overflow branch: the flow's counter, the global counter, the push.
RouteOverflow(st, it) ==
    LET k == it.flow_key
        s == it.size
    IN  IF overflow_checks /\ AddOverflows(st.flows[k].queue_size.overflow, s)
        THEN Panic(st, "overflow")
        ELSE LET st1 == [st EXCEPT !.flows[k].queue_size.overflow = WrappingAdd(@, s)]
             IN  IF overflow_checks /\ AddOverflows(st1.queue_size.overflow, s)
                 THEN Panic(st1, "overflow")
                 ELSE [st1 EXCEPT !.queue_size.overflow = WrappingAdd(@, s),
                                  !.overflow = @ \cup {it}]

\* The primary branch: the flow's counter, the global counter, the push.
RouteNormal(st, it) ==
    LET k == it.flow_key
        s == it.size
    IN  IF overflow_checks /\ AddOverflows(st.flows[k].queue_size.normal, s)
        THEN Panic(st, "overflow")
        ELSE LET st1 == [st EXCEPT !.flows[k].queue_size.normal = WrappingAdd(@, s)]
             IN  IF overflow_checks /\ AddOverflows(st1.queue_size.normal, s)
                 THEN Panic(st1, "overflow")
                 ELSE [st1 EXCEPT !.queue_size.normal = WrappingAdd(@, s),
                                  !.items = @ \cup {it}]

\* A routing that sends an arrival behind the items already waiting in overflow.
RouteBehindOverflow(st, it) ==
    IF st.overflow # {} \/ ~Fits(st.queue_size.normal, it.size, max_normal_queue_size)
    THEN RouteOverflow(st, it)
    ELSE RouteNormal(st, it)

\* if self.queue_size.normal + item_size > self.max_normal_queue_size { .. } else { .. }
Route(st, it) ==
    IF ~Fits(st.queue_size.normal, it.size, max_normal_queue_size)
    THEN RouteOverflow(st, it)
    ELSE RouteNormal(st, it)

EnqueueBody(st, k, w, s) ==
    Route(Price(EnsureFlow(st, k), k, w, s), Priced(st, k, w, s))

Enqueue(k, w, s) ==
    /\ panic = "none"
    /\ Store(EnqueueBody(Self, k, w, s))
    /\ result' = [op |-> "enqueue", arg |-> <<Priced(Self, k, w, s)>>, ret |-> <<>>]
    /\ UNCHANGED <<max_normal_queue_size, overflow_checks, served>>

(***************************************************************************)
(* dequeue                                                                 *)
(***************************************************************************)
\* A pop that leaves the global virtual time as it was.
PoppedKeepingTime(st, item) == [st EXCEPT !.items = @ \ {item}]

\* self.virtual_time = item.virtual_finish_time, after self.items.pop()
Popped(st, item) ==
    [st EXCEPT !.items = @ \ {item}, !.virtual_time = item.virtual_finish_time]

\* self.queue_size.normal -= item.inner.data_size()
DebitGlobal(st, item) ==
    IF st.panic # "none" THEN st
    ELSE IF overflow_checks /\ SubOverflows(st.queue_size.normal, item.size)
    THEN Panic(st, "overflow")
    ELSE [st EXCEPT !.queue_size.normal = WrappingSub(@, item.size)]

\* The flow whose removal dequeue tests: the condition of the `if` after the debit.
FlowIsIdle(flow) == flow.queue_size.normal = 0

\* let flow = self.flows.get_mut(key).expect(..); flow.queue_size.normal -= size;
\* if flow.queue_size.normal == 0 { self.flows.remove(key) }
DebitFlow(st, item) ==
    LET k == item.flow_key
    IN  IF st.panic # "none" THEN st
        ELSE IF k \notin DOMAIN st.flows
        THEN Panic(st, "unreachable")
        ELSE IF overflow_checks /\ SubOverflows(st.flows[k].queue_size.normal, item.size)
        THEN Panic(st, "overflow")
        ELSE LET st1 == [st EXCEPT !.flows[k].queue_size.normal = WrappingSub(@, item.size)]
             IN  IF FlowIsIdle(st1.flows[k])
                 THEN [st1 EXCEPT !.flows = FlowsRemove(@, k)]
                 ELSE st1

\* The key of the flow the sweep credits with a promoted item `next`, in a dequeue
\* that popped `item`.
PromotionFlowKey(item, next) == item.flow_key

\* One promotion: the body of the `while let` after its capacity test.
Promote(st, item, next) ==
    LET k == PromotionFlowKey(item, next)
        s == next.size
    IN  IF k \notin DOMAIN st.flows
        THEN Panic(st, "unreachable")
        ELSE IF overflow_checks /\ AddOverflows(st.flows[k].queue_size.normal, s)
        THEN Panic(st, "overflow")
        ELSE LET st1 == [st EXCEPT !.flows[k].queue_size.normal = WrappingAdd(@, s)]
             IN  IF overflow_checks /\ SubOverflows(st1.flows[k].queue_size.overflow, s)
                 THEN Panic(st1, "overflow")
                 ELSE LET st2 == [st1 EXCEPT !.flows[k].queue_size.overflow = WrappingSub(@, s)]
                      IN  IF overflow_checks /\ AddOverflows(st2.queue_size.normal, s)
                          THEN Panic(st2, "overflow")
                          ELSE LET st3 == [st2 EXCEPT !.queue_size.normal = WrappingAdd(@, s)]
                               IN  IF overflow_checks /\ SubOverflows(st3.queue_size.overflow, s)
                                   THEN Panic(st3, "overflow")
                                   ELSE [st3 EXCEPT !.queue_size.overflow = WrappingSub(@, s),
                                                    !.items = @ \cup {next},
                                                    !.promoted = Append(@, next)]

\* A sweep that passes over a candidate that does not fit and goes on with the
\* candidates behind it (`continue` where the code has `break`).
RECURSIVE SweepPast(_, _, _)
SweepPast(st, item, skipped) ==
    IF st.panic # "none" \/ OverflowPop(st.overflow \ skipped) = <<>>
    THEN st
    ELSE LET next == OverflowPop(st.overflow \ skipped)[1]
         IN  IF ~Fits(st.queue_size.normal, next.size, max_normal_queue_size)
             THEN SweepPast(st, item, skipped \cup {next})
             ELSE SweepPast(Promote([st EXCEPT !.overflow = @ \ {next}], item, next),
                            item, skipped)

SweepSkipping(st, item) == SweepPast(st, item, {})

\* while let Some(next) = self.overflow.pop() { .. }
RECURSIVE Sweep(_, _)
Sweep(st, item) ==
    IF st.panic # "none" \/ OverflowPop(st.overflow) = <<>>
    THEN st
    ELSE LET next == OverflowPop(st.overflow)[1]
         IN  IF ~Fits(st.queue_size.normal, next.size, max_normal_queue_size)
             THEN st
             ELSE Sweep(Promote([st EXCEPT !.overflow = @ \ {next}], item, next), item)

DequeueBody(st, item) ==
    Sweep(DebitFlow(DebitGlobal(Popped(st, item), item), item), item)

Dequeue ==
    /\ panic = "none"
    /\ \E popped \in ItemsPop(items) :
         IF popped = <<>>
         THEN /\ result' = [op |-> "dequeue", arg |-> <<>>, ret |-> <<>>]
              /\ promoted' = <<>>
              /\ UNCHANGED <<queue, panic, served>>
         ELSE LET item == popped[1]
                  st == DequeueBody(Self, item)
              IN  /\ Store(st)
                  /\ result' = [op |-> "dequeue", arg |-> <<>>,
                                ret |-> IF st.panic = "none" THEN <<item>> ELSE <<>>]
                  /\ served' = IF st.panic = "none"
                                THEN [served EXCEPT ![item.flow_key] = @ + 1]
                                ELSE served
    /\ UNCHANGED <<max_normal_queue_size, overflow_checks>>

Next ==
    \/ \E k \in Keys, w \in Weights, s \in Sizes :
          /\ seqno < MaxEnqueues
          /\ seqno = 0 => k = FirstKey
          /\ Enqueue(k, w, s)
    \/ Dequeue

Spec == Init /\ [][Next]_vars

(***************************************************************************)
(* Vocabulary of the properties.                                           *)
(***************************************************************************)
RECURSIVE SumSizes(_)
SumSizes(heap) ==
    IF heap = {} THEN 0
    ELSE LET a == CHOOSE x \in heap : TRUE IN a.size + SumSizes(heap \ {a})

OfFlow(heap, k) == {a \in heap : a.flow_key = k}

\* The step is a call of enqueue / of dequeue that returned / that returned Some.
EnqueueReturned == result'.op = "enqueue" /\ panic' = "none"

DequeueReturned == result'.op = "dequeue" /\ panic' = "none"

DequeueReturnedSome == DequeueReturned /\ result'.ret # <<>>

\* a is ahead of b in the promotion order of the overflow buffer.
Outranks(a, b) ==
    \/ a.weight > b.weight
    \/ a.weight = b.weight /\ a.seqno < b.seqno

(***************************************************************************)
(* Two flows of fixed IpPrecedence weights, fed with items of one size     *)
(* while the primary queue has room for them (nothing goes to overflow),   *)
(* and served only while both stay backlogged in the primary queue.        *)
(***************************************************************************)
ShareMaxEnqueues == 6

ShareMaxSizes == {100, 1000}

Backlogged == \A k \in Keys : OfFlow(items, k) # {}

InitShare ==
    /\ \E max \in ShareMaxSizes : New(max)
    /\ overflow_checks \in BOOLEAN
    /\ panic = "none"
    /\ result = [op |-> "new", arg |-> <<>>, ret |-> <<>>]
    /\ promoted = <<>>
    /\ served = [k \in Keys |-> 0]

NextShare ==
    \/ \E k \in Keys, p \in DOMAIN IpPrecedenceWeight, s \in Sizes :
          /\ seqno < ShareMaxEnqueues
          /\ Fits(queue_size.normal, s, max_normal_queue_size)
          /\ \A a \in items : a.size = s
          /\ \A a \in OfFlow(items, k) : a.weight = IpPrecedenceWeight[p]
          /\ Enqueue(k, IpPrecedenceWeight[p], s)
    \/ Backlogged /\ Dequeue /\ Backlogged'

SpecShare == InitShare /\ [][NextShare]_vars

(***************************************************************************)
(* C1  Capacity: in every state, the sizes of the items in the primary     *)
(* queue sum to at most max_normal_queue_size, and so does the counter     *)
(* queue_size.normal.                                                      *)
(***************************************************************************)
Capacity ==
    /\ SumSizes(items) <= max_normal_queue_size
    /\ queue_size.normal <= max_normal_queue_size

\* A sweep promoted an item and stopped at one that does not fit.
CapacityWitness ==
    /\ result.op = "dequeue"
    /\ panic = "none"
    /\ promoted # <<>>
    /\ overflow # {}
    /\ SumSizes(items) > 0

(***************************************************************************)
(* C4  Ordering: a dequeue that returns an item returns one of the primary *)
(* queue whose virtual finish time is minimal there at the call; and when  *)
(* the call before was a dequeue that returned an item and promoted        *)
(* nothing, the finish time returned now is at least the one returned then.*)
(***************************************************************************)
Ordering ==
    [][DequeueReturnedSome =>
          /\ result'.ret[1] \in items
          /\ \A b \in items :
                result'.ret[1].virtual_finish_time <= b.virtual_finish_time
          /\ (result.op = "dequeue" /\ result.ret # <<>> /\ promoted = <<>>) =>
                result.ret[1].virtual_finish_time <= result'.ret[1].virtual_finish_time
      ]_vars

\* Two dequeues in a row returned items, the second against arrival order: an
\* item that arrived before it, with a greater finish time, is still queued.
OrderingWitness ==
    /\ result.op = "dequeue"
    /\ panic = "none"
    /\ result.ret # <<>>
    /\ \E b \in items :
          /\ b.seqno < result.ret[1].seqno
          /\ b.virtual_finish_time > result.ret[1].virtual_finish_time
(***************************************************************************)
(* C2  Overflow hand-over scenario, max_normal_queue_size = 100:           *)
(* enqueue(A, weight 1, 60 bytes) then enqueue(B, weight 3, 60 bytes)      *)
(* leave A's item in the primary queue and B's in overflow; the first      *)
(* dequeue returns A's item and promotes B's; the second returns B's item  *)
(* and leaves both queues and the flow ledger empty.                       *)
(***************************************************************************)
ItemA == HeapItem("A", 1, 60, 0, 60)

ItemB == HeapItem("B", 3, 60, 1, 180)

HandOver ==
    [][/\ ( /\ max_normal_queue_size = 100
            /\ ItemA \in items \cup overflow
            /\ result'.op = "enqueue"
            /\ result'.arg = <<ItemB>> ) =>
               items' = {ItemA} /\ overflow' = {ItemB}
       /\ ( /\ max_normal_queue_size = 100
            /\ seqno = 2
            /\ items = {ItemA}
            /\ overflow = {ItemB}
            /\ result'.op = "dequeue" ) =>
               /\ panic' = "none"
               /\ result'.ret = <<ItemA>>
               /\ promoted' = <<ItemB>>
               /\ items' = {ItemB}
               /\ overflow' = {}
       /\ ( /\ max_normal_queue_size = 100
            /\ seqno = 2
            /\ items = {ItemB}
            /\ overflow = {}
            /\ result'.op = "dequeue" ) =>
               /\ panic' = "none"
               /\ result'.ret = <<ItemB>>
               /\ items' = {}
               /\ overflow' = {}
               /\ DOMAIN flows' = {}
      ]_vars

(***************************************************************************)
(* C3  Conservation: every call leaves each item in exactly one of the     *)
(* primary queue, the overflow buffer and the caller's hands: the items    *)
(* buffered after a call, with the one it returned, are the items buffered *)
(* before it, with the one it accepted; none is in two places, none is     *)
(* lost.                                                                   *)
(***************************************************************************)
Some(option) == {option[i] : i \in 1..Len(option)}

Conservation ==
    [][/\ items' \cap overflow' = {}
       /\ Some(result'.ret) \cap (items' \cup overflow') = {}
       /\ items' \cup overflow' \cup Some(result'.ret) =
             items \cup overflow \cup Some(result'.arg)
      ]_vars

(***************************************************************************)
(* C5  Flow teardown: a dequeue that returns an item removes the item's    *)
(* flow from the ledger exactly when the flow's combined buffered bytes    *)
(* (primary + overflow) are zero once the item's size is subtracted; a     *)
(* flow with an item left in the overflow buffer stays in flows().         *)
(***************************************************************************)
FlowTeardown ==
    [][DequeueReturnedSome =>
          LET k == result'.ret[1].flow_key
          IN  /\ k \in DOMAIN flows
              /\ (k \notin DOMAIN flows') <=>
                    ( flows[k].queue_size.normal + flows[k].queue_size.overflow
                         - result'.ret[1].size = 0 )
              /\ OfFlow(overflow', k) # {} => k \in DOMAIN flows'
      ]_vars

(***************************************************************************)
(* C6  Per-flow byte accounting: after every completed call, each flow of  *)
(* flows() counts in queue_size.normal the bytes of its items in the       *)
(* primary queue and in queue_size.overflow the bytes of its items in the  *)
(* overflow buffer.                                                        *)
(***************************************************************************)
ByteAccounting ==
    panic = "none" =>
       \A k \in DOMAIN flows :
          /\ flows[k].queue_size.normal = SumSizes(OfFlow(items, k))
          /\ flows[k].queue_size.overflow = SumSizes(OfFlow(overflow, k))

(***************************************************************************)
(* C7  Promotion order: in every call, the items that leave the overflow   *)
(* buffer are promoted in descending weight, equal weights in ascending    *)
(* sequence number, and each of them is ahead, in that order, of every     *)
(* item the call leaves in the overflow buffer.                            *)
(***************************************************************************)
PromotionOrder ==
    [][/\ \A i, j \in 1..Len(promoted') :
             i < j => Outranks(promoted'[i], promoted'[j])
       /\ \A i \in 1..Len(promoted') : promoted'[i] \in overflow \ overflow'
       /\ \A a \in overflow \ overflow' : \A b \in overflow' : Outranks(a, b)
      ]_vars

\* One sweep promoted a later arrival of greater weight before an earlier one.
PromotionOrderWitness ==
    /\ panic = "none"
    /\ Len(promoted) >= 2
    /\ promoted[1].weight > promoted[2].weight
    /\ promoted[1].seqno > promoted[2].seqno

(***************************************************************************)
(* C8  A dequeue returns nothing if and only if the primary queue is empty *)
(* at the call, whatever the overflow buffer holds; returning nothing, it  *)
(* leaves items, overflow, flows, queue_size, virtual_time and seqno as    *)
(* they were and promotes nothing.                                         *)
(***************************************************************************)
DequeueNothing ==
    [][DequeueReturned =>
          /\ (result'.ret = <<>>) <=> (items = {})
          /\ result'.ret = <<>> => (UNCHANGED queue /\ promoted' = <<>>)
      ]_vars

\* A dequeue returned nothing while an item waits in the overflow buffer.
DequeueNothingWitness ==
    /\ result.op = "dequeue"
    /\ panic = "none"
    /\ result.ret = <<>>
    /\ items = {}
    /\ overflow # {}

LookupsSucceed == panic # "unreachable"

(***************************************************************************)
(* C12  Byte counters never wrap: no call subtracts from a byte counter    *)
(* more than it holds, so no call panics on arithmetic overflow and no     *)
(* global or per-flow counter holds a wrapped value.                       *)
(***************************************************************************)
Wrapped(n) == 2 * n >= UsizeModulus

CountersNeverWrap ==
    /\ panic # "overflow"
    /\ ~Wrapped(queue_size.normal) /\ ~Wrapped(queue_size.overflow)
    /\ \A k \in DOMAIN flows :
          /\ ~Wrapped(flows[k].queue_size.normal)
          /\ ~Wrapped(flows[k].queue_size.overflow)

(***************************************************************************)
(* C13  Ledger positivity: after every completed call, each flow of        *)
(* flows() has queue_size.total() (normal + overflow, in usize) strictly   *)
(* greater than zero, and so has bytes buffered.  Every size of the model  *)
(* is at least 1.                                                          *)
(***************************************************************************)
Total(qs) == WrappingAdd(qs.normal, qs.overflow)

LedgerPositivity ==
    panic = "none" =>
       \A k \in DOMAIN flows :
          /\ Total(flows[k].queue_size) > 0
          /\ OfFlow(items \cup overflow, k) # {}

(***************************************************************************)
(* C14  Per-flow finish-time monotonicity: an item admitted for a key that *)
(* still has items buffered (primary or overflow) gets a virtual finish    *)
(* time at least that of each of those items.                              *)
(***************************************************************************)
FinishTimeMonotone ==
    [][EnqueueReturned =>
          \A b \in OfFlow(items \cup overflow, result'.arg[1].flow_key) :
             b.virtual_finish_time <= result'.arg[1].virtual_finish_time
      ]_vars

(***************************************************************************)
(* C15  Pricing: enqueue of (key, weight w, size s) builds an item with    *)
(* finish time base + s * w, base being the flow's last finish time if the *)
(* key is in the ledger and the global virtual time if not; the flow's     *)
(* last finish time becomes that value; the item takes the current         *)
(* sequence number, greater than that of every buffered item, and the      *)
(* counter grows by one.                                                   *)
(***************************************************************************)
Pricing ==
    [][result'.op = "enqueue" =>
          LET n == result'.arg[1]
              k == n.flow_key
              base == IF k \in DOMAIN flows
                      THEN flows[k].last_virtual_finish_time
                      ELSE virtual_time
          IN  /\ panic' = "none"
              /\ n.virtual_finish_time = base + n.size * n.weight
              /\ n \in items' \cup overflow'
              /\ k \in DOMAIN flows'
              /\ flows'[k].last_virtual_finish_time = n.virtual_finish_time
              /\ n.seqno = seqno
              /\ seqno' = seqno + 1
              /\ \A b \in items \cup overflow : b.seqno < n.seqno
      ]_vars

\* An enqueue created a flow after virtual time had advanced, with a weight above 1.
PricingWitness ==
    /\ result.op = "enqueue"
    /\ panic = "none"
    /\ virtual_time > 0
    /\ result.arg[1].weight > 1
    /\ result.arg[1].virtual_finish_time =
          virtual_time + result.arg[1].size * result.arg[1].weight
    /\ \A b \in items \cup overflow :
          b.flow_key = result.arg[1].flow_key => b = result.arg[1]

(***************************************************************************)
(* C16  Admission routing: enqueue of an item of size s puts it in the     *)
(* primary queue if and only if queue_size.normal + s <= the maximum at    *)
(* the call, whatever the overflow buffer holds, and in the overflow       *)
(* buffer otherwise; the matching global counter and the matching counter  *)
(* of the item's flow grow by s (usize arithmetic) and the other two stay; *)
(* enqueue never rejects and takes nothing out of either queue.            *)
(***************************************************************************)
FlowQueueSize(fl, k) == IF k \in DOMAIN fl THEN fl[k].queue_size ELSE NewQueueSize

AdmissionRouting ==
    [][result'.op = "enqueue" =>
          LET n == result'.arg[1]
              k == n.flow_key
              old == FlowQueueSize(flows, k)
              new == FlowQueueSize(flows', k)
          IN  /\ panic' = "none"
              /\ promoted' = <<>>
              /\ IF queue_size.normal + n.size <= max_normal_queue_size
                 THEN /\ items' = items \cup {n}
                      /\ overflow' = overflow
                      /\ queue_size'.normal = queue_size.normal + n.size
                      /\ queue_size'.overflow = queue_size.overflow
                      /\ new.normal = WrappingAdd(old.normal, n.size)
                      /\ new.overflow = old.overflow
                 ELSE /\ overflow' = overflow \cup {n}
                      /\ items' = items
                      /\ queue_size'.overflow = queue_size.overflow + n.size
                      /\ queue_size'.normal = queue_size.normal
                      /\ new.overflow = WrappingAdd(old.overflow, n.size)
                      /\ new.normal = old.normal
              /\ n \notin items \cup overflow
      ]_vars

\* An arrival went straight into the primary queue past an older item that
\* waits in overflow and would fit as well.
AdmissionRoutingWitness ==
    /\ result.op = "enqueue"
    /\ panic = "none"
    /\ result.arg[1] \in items
    /\ \E b \in overflow :
          /\ b.seqno < result.arg[1].seqno
          /\ b.size <= result.arg[1].size

(***************************************************************************)
(* C17  Sweep stop condition: after a dequeue that returns an item, the    *)
(* overflow buffer is empty or its first item in promotion order does not  *)
(* fit (queue_size.normal + its size > the maximum); the items the call    *)
(* promoted are exactly those that left overflow, each ahead of every item *)
(* left behind, so nothing is promoted past the item the sweep stopped at; *)
(* and each promoted item is in the primary queue with the finish time it  *)
(* had in overflow.                                                        *)
(***************************************************************************)
First(heap) == {a \in heap : \A b \in heap : a = b \/ Outranks(a, b)}

SweepStops ==
    [][DequeueReturnedSome =>
          /\ \A a \in First(overflow') :
                queue_size'.normal + a.size > max_normal_queue_size
          /\ overflow' = overflow \ Some(promoted')
          /\ Some(promoted') \subseteq overflow \cap items'
          /\ \A a \in Some(promoted') : \A b \in overflow' : Outranks(a, b)
      ]_vars

\* The sweep stopped at an item that does not fit, with an item behind it in
\* the overflow buffer that would have fitted.
SweepStopsWitness ==
    /\ result.op = "dequeue"
    /\ panic = "none"
    /\ result.ret # <<>>
    /\ \E a \in First(overflow) : a.size <= max_normal_queue_size
    /\ \E b \in overflow : queue_size.normal + b.size <= max_normal_queue_size

(***************************************************************************)
(* C18  Global virtual time is monotone: no call ever decreases the global *)
(* virtual time.                                                           *)
(***************************************************************************)
VirtualTimeMonotone == [][virtual_time' >= virtual_time]_vars

\* C18, amended: a dequeue that returns an item sets the global virtual time
\* to that item's virtual finish time, whether this is above or below the old
\* value; enqueue and a dequeue that returns nothing leave it unchanged.
VirtualTimeFollowsService ==
    [][/\ DequeueReturnedSome =>
             virtual_time' = result'.ret[1].virtual_finish_time
       /\ EnqueueReturned \/ (DequeueReturned /\ result'.ret = <<>>) =>
             virtual_time' = virtual_time
      ]_vars

\* A dequeue has set the global virtual time to the finish time of the item it
\* returned and has promoted an item whose finish time lies below it.
VirtualTimeFollowsServiceWitness ==
    /\ result.op = "dequeue"
    /\ panic = "none"
    /\ result.ret # <<>>
    /\ virtual_time = result.ret[1].virtual_finish_time
    /\ \E a \in Some(promoted) :
          a \in items /\ a.virtual_finish_time < virtual_time

(***************************************************************************)
(* C19  Drain completeness: when every item offered is no larger than the  *)
(* maximum size of the primary queue, an empty primary queue implies an    *)
(* empty overflow buffer in every reachable state, so that draining the    *)
(* primary queue leaves no admitted item behind.                           *)
(***************************************************************************)
DrainCompleteness ==
    (\A s \in Sizes : s <= max_normal_queue_size) =>
        (items = {} => overflow = {})

(***************************************************************************)
(* C20  Oversized items are stuck: an item larger than the maximum size of *)
(* the primary queue is routed to overflow by enqueue; once in overflow it *)
(* stays there over every call (it is not promoted and not returned), and  *)
(* no item of the primary queue is oversized; while an oversized item is   *)
(* first in promotion order, a call promotes nothing and removes nothing   *)
(* from the overflow buffer.                                               *)
(***************************************************************************)
Oversized(a) == a.size > max_normal_queue_size

OversizedStuck ==
    [][/\ \A a \in Some(result'.arg) : Oversized(a) => a \in overflow'
       /\ \A a \in items' \cup Some(result'.ret) \cup Some(promoted') :
             ~Oversized(a)
       /\ \A a \in overflow : Oversized(a) =>
             /\ a \in overflow'
             /\ a \in First(overflow) =>
                   promoted' = <<>> /\ overflow \subseteq overflow'
      ]_vars

\* A dequeue returned an item and freed room for an item of the overflow
\* buffer, which stays behind an oversized item that is first in promotion
\* order.
OversizedStuckWitness ==
    /\ result.op = "dequeue"
    /\ panic = "none"
    /\ result.ret # <<>>
    /\ \E a \in First(overflow) : Oversized(a)
    /\ \E b \in overflow : queue_size.normal + b.size <= max_normal_queue_size

====
